---- MODULE Spec2Model ----
(***************************************************************************)
(* The two multipart writers of eaigner/s3:                                *)
(*   uploader  src/s3.go      lines 89-294  (five worker goroutines fed    *)
(*                                           over an unbuffered channel)   *)
(*   writer    src/README.md  lines 89-346  (a mutex, a scheduling         *)
(*                                           goroutine, one goroutine per  *)
(*                                           part)                         *)
(* One session is modelled; impl says which of the two writers it uses.    *)
(* A byte of the written stream carries its position in the stream as its  *)
(* value, so that a lost, duplicated or reordered byte is visible.         *)
(* The S3 store is the environment: every HTTP response is a free choice.  *)
(*                                                                         *)
(* Six specifications:                                                     *)
(*   Spec      a session of either writer, with its goroutines and its     *)
(*             failing responses, the part sizes scaled to a few bytes     *)
(*   SizeSpec  the sizes of the parts alone, with the constants unscaled   *)
(*             (5 MiB, 2^31-1, 10000)                                      *)
(*   ObjSpec   an uploader session from Object.Writer, then the calls      *)
(*             Exists, Reader and Delete of src/object.go on a store that  *)
(*             commits the object when it answers the completion 200       *)
(*   CallSpec  single calls of Delete, Exists, Head and Reader, answered   *)
(*             with any status or not at all                               *)
(*   SignSpec  signRequest on pairs of requests, as the specification      *)
(*             describes the signer (its code is not among the sources)    *)
(*   ETagSpec  the answer 200 to one part PUT, with any ETag header        *)
(***************************************************************************)
EXTENDS Integers, Sequences, FiniteSets, TLC

\* ------------------------------------------------------------- bounds
\* A session is explored either with no failing PUT or initiate response and
\* up to MaxBytes written bytes (enough parts to keep every worker busy), or
\* with up to MaxFail such failures and up to MaxFailBytes written bytes.
MaxBytes == 12
MaxFailBytes == 6
MaxFail == 4
\* Longest p of one Write call.
MaxChunk == 2
\* uploader's minPartSize (src/s3.go:69, 5 MiB), scaled to a few bytes.
minPartSize == 2
\* writer's MinPartSize (src/README.md:72, 5 MiB), scaled to a few bytes.
MinPartSize == 1

\* Where only the sizes of the parts are followed: the session ends when it
\* has dispatched MaxParts parts, and Write calls shorter than a part are
\* made while fewer than FineParts parts have been dispatched.
MaxParts == 10001
FineParts == 3

\* Where the Object calls follow the session: the session writes up to
\* ObjMaxBytes bytes, up to ObjMaxFail responses or transports fail, and up
\* to MaxObjectCalls Object calls are made once the session is over.
ObjMaxBytes == 3
ObjMaxFail == 1
MaxObjectCalls == 4

\* Where single Object calls are followed for every status: the number of
\* calls.
MaxCalls == 2

\* -------------------------------------------------- program constants
\* minPartSize (src/s3.go:69) and MinPartSize (src/README.md:72), unscaled
minPartSize5MiB == 5242880
MinPartSize5MiB == 5242880
maxPartSize == 2147483647
MaxPartSize == 2147483647
maxNPart == 10000
MaxNumParts == 10000
concurrency == 5
nTry == 2
nConcurrentUploads == 5
nRetries == 2

VARIABLES
    impl,      \* "uploader" or "writer"
    cpc,       \* where the calling goroutine is
    call,      \* the call it is in: op, rest (bytes of p not yet copied), n
    ret,       \* what the last finished call returned: op, n, err
    written,   \* number of bytes the Write calls have accepted so far
    buf,       \* u.buf[:u.off] / w.buf: the buffered bytes
    bufcap,    \* len(u.buf), 0 when u.buf is nil (uploader)
    bufsz,     \* u.bufsz (uploader)
    part,      \* u.part / w.partNum
    xml,       \* u.xml.Part / w.xml.Part, each part with its goroutine's position
    err,       \* u.err
    closed,    \* u.closed / w.closed
    aborted,   \* u.aborted / w.aborted
    UploadId,  \* u.UploadId / w.uploadId, "" when not set
    prepared,  \* w.prepared
    wg,        \* counter of u.wg / w.wg
    pc,        \* w.pc: the part numbers in the buffered channel
    chClosed,  \* close(u.ch) / close(w.pc) has run
    m,         \* w.m: Free, or the goroutine holding it (0 caller, k part k)
    once,      \* w.once has run: the schedule goroutine exists
    reqs,      \* number of initiate, complete and abort requests sent
    manifest,  \* the PartNumbers of the completion request's body
    committed, \* the completion request was answered 200
    fails,     \* number of failing PUT and initiate responses so far
    quota,     \* the bounds of this session: bytes written, failing responses
    off,       \* u.off / w.buf.Len() where only the sizes are followed
    last,      \* size and origin of the part dispatched last (sizes only)
    object,    \* the store's object under the session's key
    out,       \* the results of the Object calls made after the session
    signed,    \* the requests signed so far, each with its Authorization
    resp       \* the ETag header of the answer to a part PUT

vars == <<impl, cpc, call, ret, written, buf, bufcap, bufsz, part, xml, err,
          closed, aborted, UploadId, prepared, wg, pc, chClosed, m, once,
          reqs, manifest, committed, fails, quota, off, last, object, out,
          signed, resp>>

\* ------------------------------------------------------------ values
Min(a, b) == IF a < b THEN a ELSE b

Nil == [kind |-> "nil", part |-> 0]
EINVAL == [kind |-> "EINVAL", part |-> 0]
\* the error of the last failed PUT of part k
PartErr(k) == [kind |-> "part", part |-> k]
InitErr == [kind |-> "initiate", part |-> 0]
CompleteErr == [kind |-> "complete", part |-> 0]
AbortErr == [kind |-> "abort", part |-> 0]

Free == -1
Caller == 0

\* bytes number a+1 .. a+k of the stream
Bytes(a, k) == [i \in 1..k |-> a + i]

NoCall == [op |-> "none", rest |-> 0, n |-> 0]
NoRet == [op |-> "none", n |-> 0, err |-> Nil]
NoPart == [size |-> 0, by |-> "none"]
NoObject == [exists |-> FALSE, body |-> <<>>]
NoResp == <<>>

\* (mutant of NewPart: the counter is read before it is incremented)
NewPartStaleNumber(num, data) ==
    [PartNumber |-> num - 1, data |-> data, ETag |-> "", st |-> "chan",
     tries |-> 0, body |-> <<>>, rpos |-> 0]

\* a new part: &part{..., PartNumber, ""}
NewPart(num, data) ==
    [PartNumber |-> num, data |-> data, ETag |-> "", st |-> "chan", tries |-> 0,
     body |-> <<>>, rpos |-> 0]

InFlight == {k \in 1..Len(xml) : xml[k].st = "put"}

PartNumbers(x) == [k \in 1..Len(x) |-> x[k].PartNumber]

Alive == cpc # "panic"

\* The parts of x as the store reassembles them: by ascending PartNumber,
\* a later upload of a number replacing an earlier one.
NumbersOf(x) == {x[k].PartNumber : k \in 1..Len(x)}
DataOf(x, i) ==
    x[CHOOSE k \in 1..Len(x) :
        /\ x[k].PartNumber = i
        /\ \A j \in (k + 1)..Len(x) : x[j].PartNumber # i].data
RECURSIVE ReassembleFrom(_, _)
ReassembleFrom(x, S) ==
    IF S = {} THEN <<>>
    ELSE LET i == CHOOSE a \in S : \A b \in S : a <= b
         IN  DataOf(x, i) \o ReassembleFrom(x, S \ {i})
Reassemble(x) == ReassembleFrom(x, NumbersOf(x))

\* The store commits the object when it answers a completion request 200.
Commit(code, x, o) ==
    IF code = "200" THEN [exists |-> TRUE, body |-> Reassemble(x)] ELSE o

Init ==
    /\ impl \in {"uploader", "writer"}
    /\ cpc = IF impl = "uploader" THEN "new" ELSE "idle"
    /\ call = NoCall
    /\ ret = NoRet
    /\ written = 0
    /\ buf = <<>>
    /\ bufcap = 0
    /\ bufsz = minPartSize
    /\ part = 0
    /\ xml = <<>>
    /\ err = Nil
    /\ closed = FALSE
    /\ aborted = FALSE
    /\ UploadId = ""
    /\ prepared = FALSE
    /\ wg = 0
    /\ pc = <<>>
    /\ chClosed = FALSE
    /\ m = Free
    /\ once = FALSE
    /\ reqs = [init |-> 0, complete |-> 0, abort |-> 0]
    /\ manifest = <<>>
    /\ committed = FALSE
    /\ fails = 0
    /\ quota \in {[bytes |-> MaxBytes, fails |-> 0],
                  [bytes |-> MaxFailBytes, fails |-> MaxFail]}
    /\ off = 0
    /\ last = NoPart
    /\ object = NoObject
    /\ out = <<>>
    /\ signed = <<>>
    /\ resp = NoResp

\* (mutant of WgZero: Close does not wait for the uploads)
WgNotAwaited == TRUE

\* u.wg.Wait() / w.wg.Wait() returns
WgZero == wg = 0

\* =================================================== uploader (src/s3.go)

\* (mutant of UCopy: copies to the head of u.buf, not behind u.off)
UCopyAtHead(b, base, r) == Bytes(base, r)

\* copy(u.buf[u.off:], p[n:]) of r bytes, the first one number base+1 of the
\* stream, behind the buffered bytes b
UCopy(b, base, r) == b \o Bytes(base, r)

\* (mutant of UIsClosed: the closed flag is not looked at)
UClosedNotChecked == FALSE

\* if u.closed at the head of Write and Close
UIsClosed == closed

\* (mutant of UWorkerIdle: a goroutine per part instead of five workers)
UWorkerPerPart == TRUE

\* a worker is in its receive on u.ch: fewer than all five are uploading
UWorkerIdle == Cardinality(InFlight) < concurrency

\* (mutant of UMustAbort: the part failure is not looked at)
UMustAbortIgnoringErr == aborted

\* Close aborts instead of completing
UMustAbort == aborted \/ err # Nil

\* (mutant of UGrow: the capacity shrinks by a thousandth)
UGrowDownwards(b) == b - (b \div 1000)

\* min(u.bufsz+u.bufsz/1000, maxPartSize) in int64, where the sum cannot
\* wrap; written so that no intermediate value exceeds maxPartSize.
UGrow(b) ==
    IF b > maxPartSize - (b \div 1000)
    THEN maxPartSize
    ELSE Min(b + (b \div 1000), maxPartSize)

\* newUploader: POST ?uploads; on a failure no uploader exists.
newUploader(ok) ==
    /\ impl = "uploader" /\ cpc = "new"
    /\ ok \/ fails < quota.fails
    /\ reqs' = [reqs EXCEPT !.init = @ + 1]
    /\ IF ok
       THEN /\ UploadId' = "id" /\ cpc' = "idle" /\ fails' = fails
       ELSE /\ UploadId' = "" /\ cpc' = "gone" /\ fails' = fails + 1
    /\ UNCHANGED <<out, object, off, last, quota, signed, resp, impl, call, ret, written,
                   buf, bufcap, bufsz, part, xml, err, closed, aborted,
                   prepared, wg, pc, chClosed, m, once, manifest, committed>>

\* The loop of uploader.Write from its head, rest bytes of p left, n copied,
\* with u.buf[:u.off] = b, len(u.buf) = cap and u.xml.Part = x:
\* runs until p is used up (Write returns) or flush blocks on u.ch <- p.
UWriteLoop(rest, n, b, cap, x) ==
    IF rest = 0
    THEN /\ cpc' = "idle"
         /\ ret' = [op |-> "Write", n |-> n, err |-> Nil]
         /\ written' = written + n
         /\ call' = NoCall
         /\ buf' = b /\ bufcap' = cap /\ xml' = x
         /\ UNCHANGED <<bufsz, part, wg>>
    ELSE LET cap1 == IF cap = 0 THEN bufsz ELSE cap
             bsz1 == IF cap = 0
                     THEN UGrow(bufsz)
                     ELSE bufsz
             r == Min(cap1 - Len(b), rest)
             b1 == UCopy(b, written + n, r)
         IN  /\ bufsz' = bsz1
             /\ bufcap' = cap1
             /\ buf' = b1
             /\ IF Len(b1) = cap1
                THEN \* flush up to the send
                     /\ wg' = wg + 1
                     /\ part' = part + 1
                     /\ xml' = Append(x, NewPart(part + 1, b1))
                     /\ cpc' = "send"
                     /\ call' = [op |-> "Write", rest |-> rest - r, n |-> n + r]
                     /\ UNCHANGED <<ret, written>>
                ELSE \* n = len(p): the loop ends
                     /\ cpc' = "idle"
                     /\ ret' = [op |-> "Write", n |-> n + r, err |-> Nil]
                     /\ written' = written + n + r
                     /\ call' = NoCall
                     /\ xml' = x
                     /\ UNCHANGED <<part, wg>>

\* (mutant of UHasFailed: Write does not look at u.err)
UErrNotChecked == FALSE

\* if u.err != nil in Write
UHasFailed == err # Nil

UWrite(len) ==
    /\ impl = "uploader" /\ cpc = "idle"
    /\ written + len <= quota.bytes
    /\ IF UIsClosed
       THEN /\ ret' = [op |-> "Write", n |-> 0, err |-> EINVAL]
            /\ UNCHANGED <<cpc, call, written, buf, bufcap, bufsz, part, xml, wg>>
       ELSE IF UHasFailed
       THEN /\ ret' = [op |-> "Write", n |-> 0, err |-> err]
            /\ UNCHANGED <<cpc, call, written, buf, bufcap, bufsz, part, xml, wg>>
       ELSE UWriteLoop(len, 0, buf, bufcap, xml)
    /\ UNCHANGED <<out, object, off, last, quota, signed, resp, impl, err, closed, aborted,
                   UploadId, prepared, pc, chClosed, m, once, reqs, manifest,
                   committed, fails>>

\* (mutant of UHasBuffer: Close flushes whether or not there is a buffer)
UFlushesAlways == TRUE

\* if cap(u.buf) > 0 in Close
UHasBuffer == bufcap > 0

\* uploader.Close up to its first blocking point; Abort sets u.aborted first.
UCloseBody(op) ==
    IF UIsClosed
    THEN /\ ret' = [op |-> op, n |-> 0, err |-> EINVAL]
         /\ UNCHANGED <<cpc, call, part, xml, wg>>
    ELSE IF UHasBuffer
    THEN /\ wg' = wg + 1
         /\ part' = part + 1
         /\ xml' = Append(xml, NewPart(part + 1, buf))
         /\ cpc' = "send"
         /\ call' = [op |-> op, rest |-> 0, n |-> 0]
         /\ UNCHANGED ret
    ELSE /\ cpc' = "wait"
         /\ call' = [op |-> op, rest |-> 0, n |-> 0]
         /\ UNCHANGED <<ret, part, xml, wg>>

UClose ==
    /\ impl = "uploader" /\ cpc = "idle"
    /\ UCloseBody("Close")
    /\ UNCHANGED <<out, object, off, last, quota, signed, resp, impl, written, buf, bufcap,
                   bufsz, err, closed, aborted, UploadId, prepared, pc,
                   chClosed, m, once, reqs, manifest, committed, fails>>

UAbort ==
    /\ impl = "uploader" /\ cpc = "idle"
    /\ aborted' = TRUE
    /\ UCloseBody("Abort")
    /\ UNCHANGED <<out, object, off, last, quota, signed, resp, impl, written, buf, bufcap,
                   bufsz, err, closed, UploadId, prepared, pc, chClosed, m,
                   once, reqs, manifest, committed, fails>>

\* (mutant of USeek: the attempt reads p.r on from where the last one left it)
UReadsOn(p) == p.rpos

\* p.r.Seek(0, 0) before each putPart
USeek(p) == 0

\* One putPart of p: the request body is p.r from its position to its end,
\* and sending it uses p.r up.
UAttempt(p) ==
    [p EXCEPT !.tries = @ + 1,
              !.body = SubSeq(p.data, USeek(p) + 1, Len(p.data)),
              !.rpos = Len(p.data)]

\* One of the five workers is idle and receives the part flush is sending;
\* it starts the first PUT, and flush goes on (u.buf, u.off = nil, 0).
UWorkerRecv ==
    /\ impl = "uploader" /\ cpc = "send"
    /\ UWorkerIdle
    /\ LET x1 == [xml EXCEPT ![Len(xml)] = [UAttempt(@) EXCEPT !.st = "put"]]
       IN  IF call.op = "Write"
           THEN UWriteLoop(call.rest, call.n, <<>>, 0, x1)
           ELSE /\ cpc' = "wait"
                /\ xml' = x1
                /\ buf' = <<>> /\ bufcap' = 0
                /\ UNCHANGED <<call, ret, written, bufsz, part, wg>>
    /\ UNCHANGED <<out, object, off, last, quota, signed, resp, impl, err, closed, aborted,
                   UploadId, prepared, pc, chClosed, m, once, reqs, manifest,
                   committed, fails>>

\* (mutant of UMayRetry: a part is given up at its first failure)
UGivesUpAtOnce(k) == FALSE

\* for i := 0; i < nTry; i++: another attempt follows the failed one
UMayRetry(k) == xml[k].tries < nTry

\* The response to the PUT of part k arrives in retryUploadPart.
UPutResp(k, ok) ==
    /\ impl = "uploader" /\ Alive
    /\ k \in InFlight
    /\ ok \/ fails < quota.fails
    /\ IF ok
       THEN /\ xml' = [xml EXCEPT ![k].ETag = "etag", ![k].st = "ok"]
            /\ wg' = wg - 1
            /\ UNCHANGED <<err, fails>>
       ELSE IF UMayRetry(k)
       THEN /\ xml' = [xml EXCEPT ![k] = UAttempt(@)]
            /\ fails' = fails + 1
            /\ UNCHANGED <<err, wg>>
       ELSE /\ xml' = [xml EXCEPT ![k].st = "failed"]
            /\ err' = PartErr(k)
            /\ wg' = wg - 1
            /\ fails' = fails + 1
    /\ UNCHANGED <<out, object, off, last, quota, signed, resp, impl, cpc, call, ret,
                   written, buf, bufcap, bufsz, part, closed, aborted,
                   UploadId, prepared, pc, chClosed, m, once, reqs, manifest,
                   committed>>

\* u.wg.Wait() returns; close(u.ch); then the abort or the completion request.
UCloseWait ==
    /\ impl = "uploader" /\ cpc = "wait"
    /\ WgZero
    /\ chClosed' = TRUE
    /\ closed' = TRUE
    /\ IF UMustAbort
       THEN /\ reqs' = [reqs EXCEPT !.abort = @ + 1]
            /\ cpc' = "abort"
            /\ UNCHANGED manifest
       ELSE /\ reqs' = [reqs EXCEPT !.complete = @ + 1]
            /\ manifest' = PartNumbers(xml)
            /\ cpc' = "complete"
    /\ UNCHANGED <<out, object, off, last, quota, signed, resp, impl, call, ret, written,
                   buf, bufcap, bufsz, part, xml, err, aborted, UploadId,
                   prepared, wg, pc, m, once, committed, fails>>

\* uploader.abort ignores the outcome of its request; Close returns u.err.
UAbortResp(code) ==
    /\ impl = "uploader" /\ cpc = "abort"
    /\ code \in {"200", "204", "500", "neterr"}
    /\ cpc' = "idle"
    /\ ret' = [op |-> call.op, n |-> 0, err |-> err]
    /\ call' = NoCall
    /\ UNCHANGED <<out, object, off, last, quota, signed, resp, impl, written, buf, bufcap,
                   bufsz, part, xml, err, closed, aborted, UploadId, prepared,
                   wg, pc, chClosed, m, once, reqs, manifest, committed,
                   fails>>

UCompleteResp(code) ==
    /\ impl = "uploader" /\ cpc = "complete"
    /\ code \in {"200", "500", "neterr"}
    /\ cpc' = "idle"
    /\ ret' = [op |-> call.op, n |-> 0,
               err |-> IF code = "200" THEN Nil ELSE CompleteErr]
    /\ committed' = (code = "200")
    /\ object' = Commit(code, xml, object)
    /\ call' = NoCall
    /\ UNCHANGED <<out, off, last, quota, signed, resp, impl, written, buf, bufcap, bufsz,
                   part, xml, err, closed, aborted, UploadId, prepared, wg,
                   pc, chClosed, m, once, reqs, manifest, fails>>

UNext ==
    \/ \E ok \in BOOLEAN : newUploader(ok)
    \/ \E len \in 0..MaxChunk : UWrite(len)
    \/ UClose
    \/ UAbort
    \/ UWorkerRecv
    \/ \E k \in 1..Len(xml), ok \in BOOLEAN : UPutResp(k, ok)
    \/ UCloseWait
    \/ \E code \in {"200", "204", "500", "neterr"} : UAbortResp(code)
    \/ \E code \in {"200", "500", "neterr"} : UCompleteResp(code)

\* ================================================ writer (src/README.md)

\* The fields of the writer and of its goroutines that the steps below change.
WState ==
    [cpc |-> cpc, call |-> call, ret |-> ret, written |-> written, buf |-> buf,
     part |-> part, xml |-> xml, closed |-> closed, aborted |-> aborted,
     wg |-> wg, pc |-> pc, chClosed |-> chClosed, m |-> m, once |-> once,
     reqs |-> reqs, manifest |-> manifest]

WSet(s) ==
    /\ cpc' = s.cpc /\ call' = s.call /\ ret' = s.ret /\ written' = s.written
    /\ buf' = s.buf /\ part' = s.part /\ xml' = s.xml /\ closed' = s.closed
    /\ aborted' = s.aborted /\ wg' = s.wg /\ pc' = s.pc
    /\ chClosed' = s.chClosed /\ m' = s.m /\ once' = s.once /\ reqs' = s.reqs
    /\ manifest' = s.manifest

\* Goroutine t (Caller, or the uploadPartRetry goroutine of part t) is at v.
WPcOf(t) == IF t = Caller THEN cpc ELSE xml[t].st
WAt(s, t, v) ==
    IF t = Caller THEN [s EXCEPT !.cpc = v] ELSE [s EXCEPT !.xml[t].st = v]

\* The abort argument of the close call goroutine t is in:
\* Close is close(false), Abort and uploadPartRetry call close(true).
WAbortArg(s, t) == IF t = Caller THEN s.call.op = "Abort" ELSE TRUE

\* defer w.m.Unlock()
WUnlock(s) == [s EXCEPT !.m = Free]

\* Goroutine t returns e from its call. The caller gets (n, e); an
\* uploadPartRetry goroutine drops e and runs its deferred w.wg.Done().
WReturn(s, t, e) ==
    IF t = Caller
    THEN [s EXCEPT !.cpc = "idle",
                   !.ret = [op |-> s.call.op, n |-> s.call.n, err |-> e],
                   !.written = @ + s.call.n,
                   !.call = NoCall]
    ELSE [s EXCEPT !.xml[t].st = "failed", !.wg = @ - 1]

\* (mutant of WNothingToFlush: flush makes a part of an empty buffer too)
WFlushesEmpty(s) == FALSE

\* if len(b) == 0 in flush
WNothingToFlush(s) == Len(s.buf) = 0

\* writer.flush. out: "none" nothing to flush, "sent" the part is in w.pc,
\* "block" w.pc is full, "panic" w.pc is closed.
wflush(s) ==
    IF WNothingToFlush(s)
    THEN [s |-> s, out |-> "none"]
    ELSE LET s1 == [s EXCEPT !.buf = <<>>,
                             !.part = @ + 1,
                             !.xml = Append(@, NewPart(s.part + 1, s.buf)),
                             !.wg = @ + 1]
         IN  IF s.chClosed
             THEN [s |-> s1, out |-> "panic"]
             ELSE IF Len(s.pc) < nConcurrentUploads
             THEN [s |-> [s1 EXCEPT !.pc = Append(@, s1.part)], out |-> "sent"]
             ELSE [s |-> s1, out |-> "block"]

\* writer.Write from w.buf.Write(p) on (w.m held, the session prepared).
WBuffer(s) ==
    LET len == s.call.rest
        s1 == [s EXCEPT !.once = TRUE,
                        !.buf = @ \o Bytes(s.written, len),
                        !.call = [op |-> "Write", rest |-> 0, n |-> len]]
    IN  IF Len(s1.buf) > MinPartSize
        THEN LET f == wflush(s1)
             IN  IF f.out = "panic" THEN [f.s EXCEPT !.cpc = "panic"]
                 ELSE IF f.out = "block" THEN [f.s EXCEPT !.cpc = "send"]
                 ELSE WReturn(WUnlock(f.s), Caller, Nil)
        ELSE WReturn(WUnlock(s1), Caller, Nil)

\* (mutant of WWriteLocked: Write buffers without preparing the session)
WWriteUnprepared(s) == WBuffer(s)

\* writer.Write once w.m is held: prepare sends the initiate request first.
WWriteLocked(s) ==
    IF ~prepared
    THEN [s EXCEPT !.cpc = "prep", !.reqs.init = @ + 1]
    ELSE WBuffer(s)

\* writer.close once w.m is held, up to w.wg.Wait().
WCloseLocked(s, t) ==
    IF s.closed
    THEN WReturn(WUnlock(s), t, Nil)
    ELSE LET f == wflush([s EXCEPT !.aborted = WAbortArg(s, t)])
         IN  IF f.out = "panic" THEN [f.s EXCEPT !.cpc = "panic"]
             ELSE IF f.out = "block" THEN WAt(f.s, t, "send")
             ELSE WAt(f.s, t, "wait")

\* Goroutine t reaches w.m.Lock() at the head of Write or close.
WLock(s, t) == WAt(s, t, "lock")

\* Goroutine t holds w.m and goes on: the caller's Write, or a close.
WLocked(s, t) ==
    IF t = Caller /\ s.call.op = "Write"
    THEN WWriteLocked(s)
    ELSE WCloseLocked(s, t)

WWrite(len) ==
    /\ impl = "writer" /\ cpc = "idle"
    /\ written + len <= quota.bytes
    /\ WSet(WLock([WState EXCEPT !.call = [op |-> "Write", rest |-> len, n |-> 0]],
                  Caller))
    /\ UNCHANGED <<out, object, off, last, quota, signed, resp, impl, bufcap, bufsz, err,
                   UploadId, prepared, committed, fails>>

\* writer.Close and writer.Abort
WClose(op) ==
    /\ impl = "writer" /\ cpc = "idle"
    /\ op \in {"Close", "Abort"}
    /\ WSet(WLock([WState EXCEPT !.call = [op |-> op, rest |-> 0, n |-> 0]],
                  Caller))
    /\ UNCHANGED <<out, object, off, last, quota, signed, resp, impl, bufcap, bufsz, err,
                   UploadId, prepared, committed, fails>>

\* w.m.Lock() returns in goroutine t.
WAcquire(t) ==
    /\ impl = "writer" /\ Alive
    /\ WPcOf(t) = "lock"
    /\ m = Free
    /\ WSet(WLocked([WState EXCEPT !.m = t], t))
    /\ UNCHANGED <<out, object, off, last, quota, signed, resp, impl, bufcap, bufsz, err,
                   UploadId, prepared, committed, fails>>

\* The response to prepare's initiate request arrives.
WPrepareResp(ok) ==
    /\ impl = "writer" /\ cpc = "prep"
    /\ ok \/ fails < quota.fails
    /\ IF ok
       THEN /\ UploadId' = "id"
            /\ prepared' = TRUE
            /\ fails' = fails
            /\ WSet(WBuffer(WState))
       ELSE /\ fails' = fails + 1
            /\ WSet(WReturn(WUnlock(WState), Caller, InitErr))
            /\ UNCHANGED <<UploadId, prepared>>
    /\ UNCHANGED <<out, object, off, last, quota, signed, resp, impl, bufcap, bufsz, err,
                   committed>>

\* w.pc has room again: the send of flush in goroutine t goes through.
WSend(t) ==
    /\ impl = "writer" /\ Alive
    /\ WPcOf(t) = "send"
    /\ Len(pc) < nConcurrentUploads
    /\ LET s1 == [WState EXCEPT !.pc = Append(@, part)]
       IN  WSet(IF t = Caller /\ call.op = "Write"
                THEN WReturn(WUnlock(s1), Caller, Nil)
                ELSE WAt(s1, t, "wait"))
    /\ UNCHANGED <<out, object, off, last, quota, signed, resp, impl, bufcap, bufsz, err,
                   UploadId, prepared, committed, fails>>

\* (mutant of WBodyOf: the buffer of the attempt before is sent on)
WBodyUsedUp(p) == IF p.tries = 0 THEN p.data ELSE <<>>

\* buf := bytes.NewBuffer(p.buf) in each uploadPart
WBodyOf(p) == p.data

\* one uploadPart of p
WAttempt(p) == [p EXCEPT !.tries = @ + 1, !.body = WBodyOf(p)]

\* writer.schedule: takes the next part from w.pc and starts its goroutine,
\* which sends the first PUT.
WSchedule ==
    /\ impl = "writer" /\ Alive
    /\ once
    /\ pc # <<>>
    /\ xml' = [xml EXCEPT ![Head(pc)] = [WAttempt(@) EXCEPT !.st = "put"]]
    /\ pc' = Tail(pc)
    /\ UNCHANGED <<out, object, off, last, quota, signed, resp, impl, cpc, call, ret,
                   written, buf, bufcap, bufsz, part, err, closed, aborted,
                   UploadId, prepared, wg, chClosed, m, once, reqs, manifest,
                   committed, fails>>

\* The response to the PUT of part k arrives in uploadPartRetry.
WPutResp(k, ok) ==
    /\ impl = "writer" /\ Alive
    /\ k \in InFlight
    /\ ok \/ fails < quota.fails
    /\ IF ok
       THEN /\ WSet([WState EXCEPT !.xml[k].ETag = "etag", !.xml[k].st = "ok",
                                   !.wg = @ - 1])
            /\ fails' = fails
       ELSE IF xml[k].tries < nRetries
       THEN /\ WSet([WState EXCEPT !.xml[k] = WAttempt(@)])
            /\ fails' = fails + 1
       ELSE /\ WSet(WLock(WState, k))
            /\ fails' = fails + 1
    /\ UNCHANGED <<out, object, off, last, quota, signed, resp, impl, bufcap, bufsz, err,
                   UploadId, prepared, committed>>

\* w.wg.Wait() returns in goroutine t's close: close(w.pc), w.closed = true,
\* then the abort or the completion request.
WCloseWait(t) ==
    /\ impl = "writer" /\ Alive
    /\ WPcOf(t) = "wait"
    /\ WgZero
    /\ LET s1 == [WState EXCEPT !.chClosed = TRUE, !.closed = TRUE]
       IN  WSet(WAt(IF WAbortArg(s1, t)
                    THEN [s1 EXCEPT !.reqs.abort = @ + 1]
                    ELSE [s1 EXCEPT !.reqs.complete = @ + 1,
                                    !.manifest = PartNumbers(xml)],
                    t, "final"))
    /\ UNCHANGED <<out, object, off, last, quota, signed, resp, impl, bufcap, bufsz, err,
                   UploadId, prepared, committed, fails>>

\* The response to the abort or completion request of goroutine t's close:
\* abort wants 204, complete wants 200.
WFinalResp(t, code) ==
    /\ impl = "writer" /\ Alive
    /\ WPcOf(t) = "final"
    /\ code \in {"200", "204", "500", "neterr"}
    /\ IF WAbortArg(WState, t)
       THEN /\ WSet(WReturn(WUnlock(WState), t,
                            IF code = "204" THEN Nil ELSE AbortErr))
            /\ UNCHANGED <<committed, object>>
       ELSE /\ WSet(WReturn(WUnlock(WState), t,
                            IF code = "200" THEN Nil ELSE CompleteErr))
            /\ committed' = (code = "200")
            /\ object' = Commit(code, xml, object)
    /\ UNCHANGED <<out, off, last, quota, signed, resp, impl, bufcap, bufsz, err, UploadId,
                   prepared, fails>>

Goroutines == 0..Len(xml)

WNext ==
    \/ \E len \in 0..MaxChunk : WWrite(len)
    \/ \E op \in {"Close", "Abort"} : WClose(op)
    \/ \E t \in Goroutines : WAcquire(t)
    \/ \E ok \in BOOLEAN : WPrepareResp(ok)
    \/ \E t \in Goroutines : WSend(t)
    \/ WSchedule
    \/ \E k \in 1..Len(xml), ok \in BOOLEAN : WPutResp(k, ok)
    \/ \E t \in Goroutines : WCloseWait(t)
    \/ \E t \in Goroutines, code \in {"200", "204", "500", "neterr"} : WFinalResp(t, code)

Next == UNext \/ WNext

Spec == Init /\ [][Next]_vars

\* ============================================= the sizes of the parts
\* The same Write, flush and Close with the constants unscaled and the bytes
\* left out: off is the number of buffered bytes, last the size of the part
\* dispatched last. No response fails; a part sent to the workers is taken.

SizeFrame ==
    UNCHANGED <<out, object, quota, signed, resp, impl, ret, written, buf, xml, err, closed, aborted, UploadId,
                prepared, wg, pc, chClosed, m, once, reqs, manifest, committed,
                fails>>

SizeInit ==
    /\ impl \in {"uploader", "writer"}
    /\ cpc = "idle"
    /\ call = NoCall /\ ret = NoRet
    /\ written = 0 /\ buf = <<>> /\ bufcap = 0
    /\ bufsz = minPartSize5MiB
    /\ part = 0 /\ xml = <<>> /\ err = Nil
    /\ closed = FALSE /\ aborted = FALSE
    /\ UploadId = "id" /\ prepared = TRUE
    /\ wg = 0 /\ pc = <<>> /\ chClosed = FALSE /\ m = Free /\ once = FALSE
    /\ reqs = [init |-> 1, complete |-> 0, abort |-> 0]
    /\ manifest = <<>> /\ committed = FALSE /\ fails = 0
    /\ quota = [bytes |-> 0, fails |-> 0]
    /\ off = 0
    /\ last = NoPart
    /\ object = NoObject
    /\ out = <<>>
    /\ signed = <<>>
    /\ resp = NoResp

\* len(p) of the Write calls
SizeUChunks == {minPartSize5MiB \div 2 + 1, maxPartSize}
SizeWChunks == {MinPartSize5MiB \div 2 + 1, MinPartSize5MiB, MinPartSize5MiB + 1}

\* The loop of uploader.Write from its head, rest bytes of p left, with
\* u.off = o and len(u.buf) = cap: until p is used up or flush sends a part.
SizeUWriteLoop(rest, o, cap) ==
    IF rest = 0
    THEN /\ cpc' = "idle"
         /\ call' = NoCall
         /\ off' = o /\ bufcap' = cap
         /\ UNCHANGED <<bufsz, part, last>>
    ELSE LET cap1 == IF cap = 0 THEN bufsz ELSE cap
             bsz1 == IF cap = 0 THEN UGrow(bufsz) ELSE bufsz
             r == Min(cap1 - o, rest)
         IN  /\ bufsz' = bsz1
             /\ bufcap' = cap1
             /\ off' = o + r
             /\ IF o + r = cap1
                THEN /\ part' = part + 1
                     /\ last' = [size |-> o + r, by |-> "Write"]
                     /\ cpc' = "send"
                     /\ call' = [op |-> "Write", rest |-> rest - r, n |-> 0]
                ELSE /\ cpc' = "idle"
                     /\ call' = NoCall
                     /\ UNCHANGED <<part, last>>

SizeUWrite(len) ==
    /\ impl = "uploader" /\ cpc = "idle"
    /\ part < MaxParts
    /\ len < minPartSize5MiB => part < FineParts
    /\ SizeUWriteLoop(len, off, bufcap)
    /\ SizeFrame

\* uploader.Close: the buffered rest becomes the last part.
SizeUClose ==
    /\ impl = "uploader" /\ cpc = "idle"
    /\ IF bufcap > 0
       THEN /\ part' = part + 1
            /\ last' = [size |-> off, by |-> "Close"]
            /\ cpc' = "send"
            /\ call' = [op |-> "Close", rest |-> 0, n |-> 0]
       ELSE /\ cpc' = "closed"
            /\ UNCHANGED <<part, last, call>>
    /\ UNCHANGED <<off, bufcap, bufsz>>
    /\ SizeFrame

\* A worker takes the part: flush sets u.buf, u.off = nil, 0 and returns.
SizeUSent ==
    /\ impl = "uploader" /\ cpc = "send"
    /\ IF call.op = "Write"
       THEN SizeUWriteLoop(call.rest, 0, 0)
       ELSE /\ cpc' = "closed"
            /\ call' = NoCall
            /\ off' = 0 /\ bufcap' = 0
            /\ UNCHANGED <<bufsz, part, last>>
    /\ SizeFrame

\* writer.Write on the prepared session, w.pc with room.
SizeWWrite(len) ==
    /\ impl = "writer" /\ cpc = "idle"
    /\ part < MaxParts
    /\ IF off + len > MinPartSize5MiB
       THEN /\ part' = part + 1
            /\ last' = [size |-> off + len, by |-> "Write"]
            /\ off' = 0
       ELSE /\ off' = off + len
            /\ UNCHANGED <<part, last>>
    /\ UNCHANGED <<cpc, call, bufcap, bufsz>>
    /\ SizeFrame

\* writer.close: the buffered rest becomes the last part.
SizeWClose ==
    /\ impl = "writer" /\ cpc = "idle"
    /\ cpc' = "closed"
    /\ IF off > 0
       THEN /\ part' = part + 1
            /\ last' = [size |-> off, by |-> "Close"]
            /\ off' = 0
       ELSE UNCHANGED <<part, last, off>>
    /\ UNCHANGED <<call, bufcap, bufsz>>
    /\ SizeFrame

SizeNext ==
    \/ \E len \in SizeUChunks : SizeUWrite(len)
    \/ SizeUClose
    \/ SizeUSent
    \/ \E len \in SizeWChunks : SizeWWrite(len)
    \/ SizeWClose

SizeSpec == SizeInit /\ [][SizeNext]_vars

\* ============================================ Object (src/object.go)
\* Object.Writer is newUploader on the URL of o.urlSafeKey(), and
\* Object.request sends to the URL of o.urlSafeKey() too: the session and
\* the Object calls name the same object of the store. The calls are made
\* by the goroutine that wrote, once its Close or Abort has returned.

\* what the store holds before the session: nothing, or an older object
StaleObject == [exists |-> TRUE, body |-> <<0>>]

NetErr == [kind |-> "transport", part |-> 0]
StatusErr == [kind |-> "status", part |-> 0]

ObjInit ==
    /\ impl = "uploader"
    /\ cpc = "new"
    /\ call = NoCall /\ ret = NoRet
    /\ written = 0 /\ buf = <<>> /\ bufcap = 0
    /\ bufsz = minPartSize
    /\ part = 0 /\ xml = <<>> /\ err = Nil
    /\ closed = FALSE /\ aborted = FALSE
    /\ UploadId = "" /\ prepared = FALSE
    /\ wg = 0 /\ pc = <<>> /\ chClosed = FALSE /\ m = Free /\ once = FALSE
    /\ reqs = [init |-> 0, complete |-> 0, abort |-> 0]
    /\ manifest = <<>> /\ committed = FALSE /\ fails = 0
    /\ quota = [bytes |-> ObjMaxBytes, fails |-> ObjMaxFail]
    /\ off = 0
    /\ last = NoPart
    /\ object \in {NoObject, StaleObject}
    /\ out = <<>>
    /\ signed = <<>>
    /\ resp = NoResp

\* The store's status for a request on the object.
StoreCode(method) ==
    IF method = "DELETE" THEN 204
    ELSE IF object.exists THEN 200 ELSE 404

\* (mutant of Respond: the status is not compared with expectCode)
RespondUnchecked(code, expectCode) == [code |-> code, err |-> Nil]

\* Object.request once the answer with status code is there:
\* if expectCode != 0 && resp.StatusCode != expectCode
Respond(code, expectCode) ==
    IF expectCode # 0 /\ code # expectCode
    THEN [code |-> 0, err |-> StatusErr]
    ELSE [code |-> code, err |-> Nil]

\* Object.request: the transport fails (answered = FALSE), or the store's
\* answer is there and is compared with expectCode unless that is 0.
request(method, expectCode, answered) ==
    IF ~answered
    THEN [code |-> 0, err |-> NetErr]
    ELSE Respond(StoreCode(method), expectCode)

\* (mutant of ExistsOf: any answer counts as existence)
ExistsWhateverStatus(r) == r.err = Nil

\* the bool of Exists: false with the error, else resp.StatusCode == 200
ExistsOf(r) == r.err = Nil /\ r.code = 200

\* An Object call can be made, some response failing or none.
ObjectCall(answered) ==
    /\ impl = "uploader" /\ cpc = "idle" /\ closed
    /\ Len(out) < MaxObjectCalls
    /\ answered \/ fails < quota.fails
    /\ fails' = IF answered THEN fails ELSE fails + 1

\* The result of a call, done telling whether Close had returned nil.
Result(op, r, e, b) ==
    [op |-> op, err |-> r.err, exists |-> e, body |-> b, done |-> committed]

ObjFrame ==
    UNCHANGED <<off, last, quota, signed, resp, impl, cpc, call, ret, written, buf, bufcap,
                bufsz, part, xml, err, closed, aborted, UploadId, prepared,
                wg, pc, chClosed, m, once, reqs, manifest, committed>>

Exists(answered) ==
    /\ ObjectCall(answered)
    /\ LET r == request("HEAD", 0, answered)
       IN  out' = Append(out, Result("Exists", r, ExistsOf(r), <<>>))
    /\ UNCHANGED object
    /\ ObjFrame

\* Reader returns resp.Body: the object's bytes.
Reader(answered) ==
    /\ ObjectCall(answered)
    /\ LET r == request("GET", 200, answered)
       IN  out' = Append(out, Result("Reader", r, FALSE,
                                     IF r.err = Nil THEN object.body ELSE <<>>))
    /\ UNCHANGED object
    /\ ObjFrame

\* Delete; when the transport fails, the store has seen the request
\* (seen = TRUE) or not.
Delete(answered, seen) ==
    /\ ObjectCall(answered)
    /\ answered => seen
    /\ LET r == request("DELETE", 204, answered)
       IN  out' = Append(out, Result("Delete", r, FALSE, <<>>))
    /\ object' = IF seen THEN NoObject ELSE object
    /\ ObjFrame

ObjNext ==
    \/ UNext
    \/ \E answered \in BOOLEAN : Exists(answered)
    \/ \E answered \in BOOLEAN : Reader(answered)
    \/ \E answered \in BOOLEAN, seen \in BOOLEAN : Delete(answered, seen)

ObjSpec == ObjInit /\ [][ObjNext]_vars

\* ------------------------------------- single calls, for every status
\* Object.Delete, Exists, Head and Reader, each answered with any of the
\* statuses below or not at all (0: the transport fails).

NoStatus == 0
StatusCodes == {NoStatus, 200, 204, 403, 404, 500}

\* errors.New(http.StatusText(resp.StatusCode)) of Head
HeadErr == [kind |-> "statustext", part |-> 0]

CallInit ==
    /\ impl = "uploader"
    /\ cpc = "new"
    /\ call = NoCall /\ ret = NoRet
    /\ written = 0 /\ buf = <<>> /\ bufcap = 0
    /\ bufsz = minPartSize
    /\ part = 0 /\ xml = <<>> /\ err = Nil
    /\ closed = FALSE /\ aborted = FALSE
    /\ UploadId = "" /\ prepared = FALSE
    /\ wg = 0 /\ pc = <<>> /\ chClosed = FALSE /\ m = Free /\ once = FALSE
    /\ reqs = [init |-> 0, complete |-> 0, abort |-> 0]
    /\ manifest = <<>> /\ committed = FALSE /\ fails = 0
    /\ quota = [bytes |-> 0, fails |-> 0]
    /\ off = 0
    /\ last = NoPart
    /\ object \in {NoObject, StaleObject}
    /\ out = <<>>
    /\ signed = <<>>
    /\ resp = NoResp

CallFrame ==
    UNCHANGED <<object, fails, off, last, quota, signed, resp, impl, cpc, call, ret, written,
                buf, bufcap, bufsz, part, xml, err, closed, aborted, UploadId,
                prepared, wg, pc, chClosed, m, once, reqs, manifest, committed>>

\* Object.request answered with status code, or not answered (NoStatus).
requestGot(code, expectCode) ==
    IF code = NoStatus
    THEN [code |-> 0, err |-> NetErr]
    ELSE Respond(code, expectCode)

\* What a call returned, with the status the store had sent.
CallResult(op, code, e, exists, body) ==
    [op |-> op, status |-> code, err |-> e, exists |-> exists, body |-> body]

CallDelete(code) ==
    /\ Len(out) < MaxCalls
    /\ LET r == requestGot(code, 204)
       IN  out' = Append(out, CallResult("Delete", code, r.err, FALSE, <<>>))
    /\ CallFrame

CallExists(code) ==
    /\ Len(out) < MaxCalls
    /\ LET r == requestGot(code, 0)
       IN  out' = Append(out, CallResult("Exists", code, r.err, ExistsOf(r),
                                        <<>>))
    /\ CallFrame

\* Head: the headers when the status is 200, else an error of its text
CallHead(code) ==
    /\ Len(out) < MaxCalls
    /\ LET r == requestGot(code, 0)
           e == IF r.err # Nil THEN r.err
                ELSE IF r.code = 200 THEN Nil ELSE HeadErr
       IN  out' = Append(out, CallResult("Head", code, e, FALSE, <<>>))
    /\ CallFrame

CallReader(code) ==
    /\ Len(out) < MaxCalls
    /\ LET r == requestGot(code, 200)
       IN  out' = Append(out, CallResult("Reader", code, r.err, FALSE,
                                        IF r.err = Nil THEN object.body
                                        ELSE <<>>))
    /\ CallFrame

CallNext ==
    \/ \E code \in StatusCodes : CallDelete(code)
    \/ \E code \in StatusCodes : CallExists(code)
    \/ \E code \in StatusCodes : CallHead(code)
    \/ \E code \in StatusCodes : CallReader(code)

CallSpec == CallInit /\ [][CallNext]_vars

\* ------------------------------------------------------ request signing
\* signRequest, as the specification describes the signer.  A text is a
\* sequence of characters; a word that holds no separator stands for one
\* character.  hmacSHA1 is the ideal MAC: different keys or messages give
\* different tags.

MaxValues == 2

RECURSIVE Join(_, _)
Join(texts, sep) ==
    IF texts = <<>> THEN <<>>
    ELSE IF Len(texts) = 1 THEN texts[1]
    ELSE texts[1] \o sep \o Join(Tail(texts), sep)

\* the provider headers of the requests, and a header's name in lower case
ProviderHeaders == {"X-Amz-Acl", "X-Amz-Meta-K"}
Lower(name) == IF name = "X-Amz-Acl" THEN "x-amz-acl" ELSE "x-amz-meta-k"

\* all names that get sorted, in sorted order
Alphabetical == <<"uploadId", "uploads", "x-amz-acl", "x-amz-meta-k">>
Sorted(names) == SelectSeq(Alphabetical, LAMBDA n : n \in names)

\* url escaping of one character, and of a text
EscapeChar(c) ==
    IF c = " " THEN <<"%", "2", "0">>
    ELSE IF c = "%" THEN <<"%", "2", "5">>
    ELSE <<c>>
Escape(text) == Join([i \in 1..Len(text) |-> EscapeChar(text[i])], <<>>)

\* the values of a header
Values == {<<"a">>, <<"b">>, <<"a", ",", "b">>}
ValueLists == UNION {[1..n -> Values] : n \in 0..MaxValues}
\* the provider headers of a request: no, one or several values each
AmzHeaders ==
    {[n \in ProviderHeaders |-> IF n = "X-Amz-Acl" THEN acl ELSE meta] :
        acl \in {<<>>, <<<<"a">>>>}, meta \in ValueLists}

\* (mutant of HeaderValue: the values are joined in sorted order)
HeaderValueSorted(values) ==
    LET has(v) == \E i \in 1..Len(values) : values[i] = v
        order == <<<<"a">>, <<"a", ",", "b">>, <<"b">>>>
    IN  Join(SelectSeq(order, has), <<",">>)

\* step 2: the values of one header, joined with commas in insertion order
HeaderValue(values) == Join(values, <<",">>)

\* step 2: name:value1,value2\n for each provider header, sorted by name
canonicalHeaders(amz) ==
    LET present == {n \in ProviderHeaders : amz[n] # <<>>}
        byLower(l) == CHOOSE n \in present : Lower(n) = l
        names == Sorted({Lower(n) : n \in present})
    IN  Join([i \in 1..Len(names) |->
                 <<names[i], ":">> \o HeaderValue(amz[byLower(names[i])])
                                   \o <<"\n">>], <<>>)

\* step 3: the escaped path, then ?name=value&... sorted by name, a bare
\* name for an empty value
canonicalResource(path, query) ==
    LET names == Sorted(DOMAIN query)
        param(n) == IF query[n] = <<>> THEN <<n>>
                    ELSE <<n, "=">> \o Escape(query[n])
    IN  <<"/">> \o Escape(path)
          \o (IF names = <<>> THEN <<>>
              ELSE <<"?">> \o Join([i \in 1..Len(names) |-> param(names[i])],
                                   <<"&">>))

\* step 4: the five fields joined by newlines
stringToSign(r, date) ==
    <<r.method, "\n">> \o r.md5 \o <<"\n">> \o r.type \o <<"\n">>
        \o date \o <<"\n">>
        \o canonicalHeaders(r.amz) \o canonicalResource(r.path, r.query)

\* step 5
hmacSHA1(key, msg) == [key |-> key, msg |-> msg]
AccessKey == "AK"
Authorization(r, date) ==
    [scheme |-> "AWS", access |-> AccessKey,
     signature |-> hmacSHA1(r.secret, stringToSign(r, date))]

\* step 1: the Date header of the request, stamped with the current time
\* when the request has none
DateOf(r, now) == IF r.date = <<>> THEN now ELSE r.date

Clock == {<<"d1">>, <<"d2">>}
Dates == {<<>>} \cup Clock
Paths == {<<"k", " ">>, <<"k", "%", "2", "0">>}
QueryNames == {"uploadId", "uploads"}
Queries == UNION {[S -> {<<>>, <<"1">>}] : S \in SUBSET QueryNames}
Words == {<<>>, <<"x">>}

FirstRequests ==
    [method : {"GET"}, md5 : Words, type : Words, date : {<<>>, <<"d1">>},
     amz : AmzHeaders, path : Paths,
     query : {q \in Queries : DOMAIN q # QueryNames}, secret : {"s1"}]

\* r with one field, or its provider headers, given another value
Variants(r) ==
    {[r EXCEPT !.method = v] : v \in {"GET", "PUT"}}
    \cup {[r EXCEPT !.md5 = v] : v \in Words}
    \cup {[r EXCEPT !.type = v] : v \in Words}
    \cup {[r EXCEPT !.date = v] : v \in Dates}
    \cup {[r EXCEPT !.amz = v] : v \in AmzHeaders}
    \cup {[r EXCEPT !.path = v] : v \in Paths}
    \cup {[r EXCEPT !.query = v] : v \in Queries}
    \cup {[r EXCEPT !.secret = v] : v \in {"s1", "s2"}}

SignInit ==
    /\ impl = "uploader"
    /\ cpc = "new"
    /\ call = NoCall /\ ret = NoRet
    /\ written = 0 /\ buf = <<>> /\ bufcap = 0
    /\ bufsz = minPartSize
    /\ part = 0 /\ xml = <<>> /\ err = Nil
    /\ closed = FALSE /\ aborted = FALSE
    /\ UploadId = "" /\ prepared = FALSE
    /\ wg = 0 /\ pc = <<>> /\ chClosed = FALSE /\ m = Free /\ once = FALSE
    /\ reqs = [init |-> 0, complete |-> 0, abort |-> 0]
    /\ manifest = <<>> /\ committed = FALSE /\ fails = 0
    /\ quota = [bytes |-> 0, fails |-> 0]
    /\ off = 0
    /\ last = NoPart
    /\ object = NoObject
    /\ out = <<>>
    /\ signed = <<>>
    /\ resp = NoResp

SignFrame ==
    UNCHANGED <<out, object, fails, off, last, quota, resp, impl, cpc, call,
                ret, written, buf, bufcap, bufsz, part, xml, err, closed, aborted,
                UploadId, prepared, wg, pc, chClosed, m, once, reqs, manifest,
                committed>>

\* signRequest on request r at time now
signRequest(r, now) ==
    /\ signed' = Append(signed, [req |-> r, date |-> DateOf(r, now),
                                 auth |-> Authorization(r, DateOf(r, now))])
    /\ SignFrame

SignFirst ==
    /\ signed = <<>>
    /\ resp = NoResp
    /\ \E r \in FirstRequests, now \in Clock : signRequest(r, now)

SignAgain ==
    /\ Len(signed) = 1
    /\ \E r \in Variants(signed[1].req), now \in Clock : signRequest(r, now)

SignNext == SignFirst \/ SignAgain

SignSpec == SignInit /\ [][SignNext]_vars

\* ------------------------------------------- the ETag of a part's answer
\* The answer 200 to the PUT of one part, with any ETag header; a text is
\* a sequence of characters, the header of an answer without ETag is empty
\* (Header.Get gives "").

MaxHeaderLen == 4

Quote == "\""
Space == " "
HeaderChars == {Quote, Space, "e"}
Headers == UNION {[1..n -> HeaderChars] : n \in 0..MaxHeaderLen}

\* strings.Trim(s, cutset)
RECURSIVE Trim(_, _)
Trim(s, cutset) ==
    IF s = <<>> THEN s
    ELSE IF Head(s) \in cutset THEN Trim(Tail(s), cutset)
    ELSE IF s[Len(s)] \in cutset THEN Trim(SubSeq(s, 1, Len(s) - 1), cutset)
    ELSE s

\* s[1 : len(s)-1] panics unless 1 <= len(s)-1
SliceInRange(s) == Len(s) >= 2
\* s[1 : len(s)-1] of putPart
Slice(s) == SubSeq(s, 2, Len(s) - 1)

\* p.ETag of writer.uploadPart
WETag(s) == Trim(s, {Space, Quote})

ETagInit ==
    /\ impl \in {"uploader", "writer"}
    /\ cpc = "wait"
    /\ call = [op |-> "Close", rest |-> 0, n |-> 0] /\ ret = NoRet
    /\ written = 1 /\ buf = <<>> /\ bufcap = 0
    /\ bufsz = minPartSize
    /\ part = 1
    /\ xml = <<[UAttempt(NewPart(1, Bytes(0, 1))) EXCEPT !.st = "put"]>>
    /\ err = Nil
    /\ closed = FALSE /\ aborted = FALSE
    /\ UploadId = "id" /\ prepared = TRUE
    /\ wg = 1 /\ pc = <<>> /\ chClosed = FALSE /\ m = Free /\ once = TRUE
    /\ reqs = [init |-> 1, complete |-> 0, abort |-> 0]
    /\ manifest = <<>> /\ committed = FALSE /\ fails = 0
    /\ quota = [bytes |-> 0, fails |-> 0]
    /\ off = 0
    /\ last = NoPart
    /\ object = NoObject
    /\ out = <<>>
    /\ signed = <<>>
    /\ resp \in Headers

ETagFrame ==
    UNCHANGED <<out, object, fails, off, last, quota, signed, resp, impl,
                call, ret, written, buf, bufcap, bufsz, part, err, closed,
                aborted, UploadId, prepared, pc, chClosed, m, once, reqs,
                manifest, committed>>

\* putPart gets 200 with the ETag header resp
UPutOk ==
    /\ impl = "uploader" /\ Alive
    /\ 1 \in InFlight
    /\ IF SliceInRange(resp)
       THEN /\ xml' = [xml EXCEPT ![1].ETag = Slice(resp), ![1].st = "ok"]
            /\ wg' = wg - 1
            /\ UNCHANGED cpc
       ELSE /\ cpc' = "panic"
            /\ UNCHANGED <<xml, wg>>
    /\ ETagFrame

\* uploadPart gets 200 with the ETag header resp
WPutOk ==
    /\ impl = "writer" /\ Alive
    /\ 1 \in InFlight
    /\ xml' = [xml EXCEPT ![1].ETag = WETag(resp), ![1].st = "ok"]
    /\ wg' = wg - 1
    /\ UNCHANGED cpc
    /\ ETagFrame

ETagNext == UPutOk \/ WPutOk

ETagSpec == ETagInit /\ [][ETagNext]_vars

\* ================================================================ claims

\* The call op that closes the session returns in this step.
FinalReturn(op) ==
    /\ cpc \in {"abort", "complete", "final"}
    /\ call.op = op
    /\ cpc' = "idle"

\* Part k has used up all its attempts.
Exhausted(k) ==
    /\ xml[k].tries = IF impl = "uploader" THEN nTry ELSE nRetries
    /\ xml[k].st \notin {"chan", "put", "ok"}
SomeExhausted == \E k \in 1..Len(xml) : Exhausted(k)

\* C1: when the Close that ends the session returns and every part was
\* uploaded, the parts' contents concatenated by ascending PartNumber are
\* exactly the bytes the Write calls accepted, in order (both writers).
C1_RoundTrip ==
    [][(FinalReturn("Close") /\ ~SomeExhausted')
        => Reassemble(xml') = Bytes(0, written')]_vars

C1_Witness ==
    /\ impl = "uploader" /\ cpc = "idle"
    /\ ret.op = "Close" /\ ret.err = Nil
    /\ written = 2 * minPartSize + 1
    /\ Len(xml) = 3

\* C2: the parts of the manifest are numbered 1, 2, ..., n in this order,
\* and the completion request lists exactly these numbers, ascending
\* (both writers).
C2_PartNumbers ==
    /\ \A k \in 1..Len(xml) : xml[k].PartNumber = k
    /\ reqs.complete > 0 =>
          /\ manifest = [k \in 1..Len(manifest) |-> k]
          /\ cpc \in {"complete", "final"} => Len(manifest) = Len(xml)

\* the completion request of a session of three parts is outstanding
C2_Witness ==
    /\ impl = "writer" /\ cpc = "final"
    /\ reqs.complete = 1
    /\ manifest = <<1, 2, 3>>

\* C3: uploader: when a part has failed on both attempts, the Close that
\* ends the session has sent one abort request and no completion request
\* and returns the failure of an exhausted part, whatever the abort
\* request's answer.
C3_CloseAfterExhaustion ==
    (/\ impl = "uploader" /\ cpc = "idle"
     /\ ret.op = "Close" /\ ret.err # EINVAL
     /\ SomeExhausted)
    => /\ reqs.abort = 1
       /\ reqs.complete = 0
       /\ ret.err.kind = "part"
       /\ ret.err.part \in 1..Len(xml)
       /\ Exhausted(ret.err.part)

C3_Witness ==
    /\ impl = "uploader" /\ cpc = "idle"
    /\ ret.op = "Close" /\ ret.err = PartErr(1)
    /\ reqs.abort = 1
    /\ Len(xml) = 2 /\ xml[2].st = "ok"

\* C4: writer: once a part has failed on each of its nRetries attempts, the
\* session is aborted and the abort request gets sent (it has been sent by
\* the time nothing more can happen), and a Close that returns reports the
\* part failure.
C4_AbortAfterExhaustion ==
    /\ (impl = "writer" /\ SomeExhausted /\ ~ENABLED Next)
         => (aborted /\ reqs.abort >= 1)
    /\ (impl = "writer" /\ SomeExhausted /\ cpc = "idle" /\ ret.op = "Close")
         => ret.err.kind = "part"

\* C5: a Close that returns nil means the completion request was sent and
\* answered 200, and the session was not aborted (both writers).
C5_NilMeansCommitted ==
    (cpc = "idle" /\ ret.op = "Close" /\ ret.err = Nil)
    => (reqs.complete = 1 /\ committed /\ reqs.abort = 0 /\ ~aborted)

\* C6: writer: never more than nConcurrentUploads part PUTs in flight.
C6_WriterInFlightBound ==
    impl = "writer" => Cardinality(InFlight) <= nConcurrentUploads

\* C7: uploader: never more than concurrency part PUTs in flight, at most
\* one dispatched part is without a worker, and while it is, the producing
\* Write or Close stands in flush's send.
Waiting == {k \in 1..Len(xml) : xml[k].st = "chan"}
C7_UploaderInFlightBound ==
    impl = "uploader" =>
        /\ Cardinality(InFlight) <= concurrency
        /\ Cardinality(Waiting) <= 1
        /\ Waiting # {} => cpc = "send"
        /\ (cpc = "send" /\ Cardinality(InFlight) = concurrency)
              => ~ENABLED UWorkerRecv

\* five uploads in flight and a sixth part held back in flush
C7_Witness ==
    /\ impl = "uploader" /\ cpc = "send"
    /\ Cardinality(InFlight) = concurrency
    /\ Cardinality(Waiting) = 1

\* C8: uploader: once Close or Abort has returned, every call returns
\* EINVAL at once, sends no request, dispatches no part and buffers
\* nothing, and the session stays closed.
C8_UploaderStaysClosed ==
    [][(impl = "uploader" /\ closed /\ cpc = "idle")
        => /\ cpc' = "idle" /\ closed'
           /\ ret'.err = EINVAL
           /\ reqs' = reqs /\ xml' = xml /\ buf' = buf
           /\ written' = written]_vars

C8_Witness ==
    /\ impl = "uploader" /\ closed /\ cpc = "idle"
    /\ ret.op = "Write" /\ ret.err = EINVAL
    /\ committed

\* C9: writer: a Write or Close called on a closed session returns the
\* invalid-state error without sending a request.
C9_WriterStaysClosed ==
    [][(impl = "writer" /\ closed /\ cpc = "lock" /\ cpc' # "lock")
        => /\ cpc' = "idle"
           /\ ret'.err = EINVAL
           /\ reqs' = reqs]_vars

\* C10: a completion or abort request is sent only when no dispatched part
\* is still waiting for a worker or has a PUT in flight (both writers).
Unfinished(k) == xml[k].st \in {"chan", "put"}
C10_FinalizeAfterJoin ==
    [][(reqs'.complete + reqs'.abort > reqs.complete + reqs.abort)
        => \A k \in 1..Len(xml) : ~Unfinished(k)]_vars

\* Abort was called with three parts dispatched, one of them failed, and
\* the abort request is out
C10_Witness ==
    /\ impl = "uploader" /\ cpc = "abort" /\ call.op = "Abort"
    /\ Len(xml) = 3
    /\ SomeExhausted

\* The completion request was answered with a failure in this step.
CompletionFailed ==
    /\ cpc \in {"complete", "final"}
    /\ reqs.complete = 1 /\ reqs.abort = 0
    /\ cpc' = "idle"
    /\ ~committed'

\* C11: when the completion request fails, the Close that sent it returns
\* the completion error, and the session is aborted: an abort request has
\* been sent by the time Close returns (both writers).
C11_CompletionFailureAborts ==
    [][CompletionFailed
        => /\ ret'.err = CompleteErr
           /\ aborted'
           /\ reqs'.abort = 1]_vars

\* C12: uploader: the error Close returns is u.err as it stands after
\* u.wg.Wait(); it is the first fatal error only if u.err, once set by the
\* first part that used up its attempts, is not replaced when a later part
\* uses up its attempts.
C12_FirstErrorKept ==
    [][(impl = "uploader" /\ err # Nil) => err' = err]_vars

\* C13: writer: while the session is not prepared nothing is buffered and no
\* part exists; a Write on such a session sends the initiate request before
\* it buffers anything; if the request fails, this Write returns the failure
\* with n = 0, buffers nothing, dispatches no part and leaves the session
\* un-prepared, so that the next Write sends an initiate request again.
C13_InitiateBeforeBuffering ==
    [][impl = "writer" =>
        /\ ~prepared => (buf = <<>> /\ xml = <<>> /\ pc = <<>> /\ written = 0)
        /\ (cpc = "lock" /\ call.op = "Write" /\ ~prepared /\ cpc' # "lock")
             => /\ cpc' = "prep"
                /\ reqs'.init = reqs.init + 1
                /\ buf' = <<>> /\ xml' = <<>>
        /\ (cpc = "prep" /\ ~prepared')
             => /\ cpc' = "idle"
                /\ ret' = [op |-> "Write", n |-> 0, err |-> InitErr]
                /\ buf' = <<>> /\ xml' = <<>> /\ pc' = <<>>
                /\ written' = 0
                /\ m' = Free]_vars

\* the initiate request of a first Write failed, and the next Write has
\* sent it again
C13_Witness ==
    /\ impl = "writer" /\ cpc = "prep"
    /\ ret.op = "Write" /\ ret.err = InitErr /\ ret.n = 0
    /\ reqs.init = 2
    /\ call.rest > 0
    /\ buf = <<>>

\* b_(k+1) of the capacities' recurrence, from b_k
NextCapacity(b) ==
    IF b <= maxPartSize - (b \div 1000) THEN b + (b \div 1000) ELSE maxPartSize

\* C14: uploader (sizes only): the first part dispatched from Write has
\* size minPartSize and each later one the size min(b + b/1000, maxPartSize)
\* for b the size of the one before it, so these sizes never decrease and
\* lie within [minPartSize, maxPartSize]; the buffer's capacity lies within
\* the same range; the part that Close dispatches is the buffered rest,
\* smaller than the capacity.
C14_UploaderPartSizes ==
    [][impl = "uploader" =>
        /\ bufsz' \in minPartSize5MiB..maxPartSize
        /\ bufcap' > 0 => bufcap' \in minPartSize5MiB..maxPartSize
        /\ (part' = part + 1 /\ last'.by = "Write")
             => /\ last'.size = IF last.by = "none"
                                THEN minPartSize5MiB
                                ELSE NextCapacity(last.size)
                /\ last'.size = bufcap'
                /\ last'.size >= last.size
                /\ last'.size \in minPartSize5MiB..maxPartSize
        /\ (part' = part + 1 /\ last'.by = "Close")
             => /\ last.by \in {"none", "Write"}
                /\ last'.size \in 1..(bufcap - 1)]_vars

\* the capacity has grown to maxPartSize and a part of this size is out,
\* after parts of smaller sizes
C14_Witness ==
    /\ impl = "uploader" /\ cpc = "send"
    /\ last = [size |-> maxPartSize, by |-> "Write"]
    /\ bufsz = maxPartSize
    /\ part > 6000

\* C15: writer: every part that has a part after it has a size within
\* [MinPartSize, MaxPartSize] and is at least as large as the part before
\* it.
C15_WriterPartSizes ==
    impl = "writer" =>
        \A k \in 1..(Len(xml) - 1) :
            /\ Len(xml[k].data) \in MinPartSize..MaxPartSize
            /\ k > 1 => Len(xml[k - 1].data) <= Len(xml[k].data)

\* C16: a session never has more than 10000 parts: the highest PartNumber
\* stays within maxNPart (uploader) and MaxNumParts (writer).
C16_PartCountBound ==
    /\ impl = "uploader" => part <= maxNPart
    /\ impl = "writer" => part <= MaxNumParts

\* C17: writer: the goroutine that holds w.m has no initiate, completion or
\* abort request outstanding and is not waiting in w.wg.Wait() for the
\* uploads in flight.
C17_MutexNotHeldAcrossIO ==
    impl = "writer" =>
        \A t \in Goroutines :
            m = t => WPcOf(t) \notin {"prep", "wait", "final"}

\* The first PUT of part k is answered with a failure in this step.
FirstAttemptFails(k) ==
    /\ xml[k].st = "put" /\ xml[k].tries = 1
    /\ xml'[k] # xml[k]
    /\ xml'[k].st # "ok"
\* The second PUT of part k is answered with success in this step.
SecondAttemptSucceeds(k) ==
    /\ xml[k].st = "put" /\ xml[k].tries = 2
    /\ xml'[k].st = "ok"
Retried == {k \in 1..Len(xml) : xml[k].tries = 2 /\ xml[k].st = "ok"}

\* C18: a failure of a part's first attempt only starts the second attempt:
\* no error is recorded, nothing is aborted, no call returns; the success
\* of the second attempt records the part's entity tag; and the Close that
\* ends a session in which every part was uploaded, some at the second
\* attempt, has sent the completion request with every part, no abort
\* request, and returns nil when the completion is answered 200 (both
\* writers).
C18_TransientFailureRecovered ==
    [][/\ \A k \in 1..Len(xml) :
            /\ FirstAttemptFails(k)
                 => /\ xml' = [xml EXCEPT ![k].tries = 2]
                    /\ err' = err /\ aborted' = aborted
                    /\ reqs' = reqs /\ ret' = ret /\ wg' = wg
            /\ SecondAttemptSucceeds(k)
                 => /\ xml'[k].ETag # ""
                    /\ err' = err /\ aborted' = aborted
                    /\ reqs' = reqs /\ ret' = ret
       /\ (/\ FinalReturn("Close")
           /\ Retried' # {}
           /\ \A k \in 1..Len(xml') : xml'[k].st = "ok")
            => /\ ~aborted'
               /\ reqs'.complete = 1 /\ reqs'.abort = 0
               /\ manifest' = PartNumbers(xml')
               /\ \A k \in 1..Len(xml') : xml'[k].ETag # ""
               /\ committed' => ret'.err = Nil]_vars

\* writer: two parts, the first one uploaded at its second attempt; Close
\* has returned nil
C18_Witness ==
    /\ impl = "writer" /\ cpc = "idle"
    /\ ret.op = "Close" /\ ret.err = Nil
    /\ committed
    /\ Len(xml) = 2
    /\ xml[1].tries = 2 /\ xml[1].st = "ok" /\ xml[1].ETag # ""
    /\ xml[2].tries = 1 /\ xml[2].st = "ok"

\* MinPartSize of the session's writer
MinOf(i) == IF i = "uploader" THEN minPartSize ELSE MinPartSize

\* C19: when the Close that ends the session returns and between 1 and the
\* minimum part size bytes were written, the session has exactly one part,
\* numbered 1, which holds all the written bytes; if this part was uploaded,
\* exactly one completion request was sent, with this part alone in its
\* manifest, and no abort request (both writers).
C19_SmallObjectOnePart ==
    [][(FinalReturn("Close") /\ written \in 1..MinOf(impl))
        => /\ Len(xml') = 1
           /\ xml'[1].PartNumber = 1
           /\ xml'[1].data = Bytes(0, written)
           /\ xml'[1].st = "ok"
                => /\ reqs'.complete = 1 /\ reqs'.abort = 0
                   /\ manifest' = <<1>>]_vars

\* uploader: exactly minPartSize bytes were written (Write has dispatched
\* the part, Close had nothing to flush), and Close has returned nil
C19_Witness ==
    /\ impl = "uploader" /\ cpc = "idle"
    /\ ret.op = "Close" /\ ret.err = Nil
    /\ written = minPartSize
    /\ Len(xml) = 1 /\ Len(xml[1].data) = minPartSize
    /\ manifest = <<1>>
    /\ committed

\* C20: of the Object calls made after a Close that returned nil: while no
\* Delete has been made, an Exists that gets its answer returns true and a
\* Reader does not fail on the status and yields exactly the written bytes;
\* an Exists right after a Delete that returned nil returns false.
C20_ReadBackAfterClose ==
    \A i \in 1..Len(out) :
        LET deleted == \E j \in 1..(i - 1) : out[j].op = "Delete"
        IN  /\ (out[i].done /\ ~deleted /\ out[i].op = "Exists"
                  /\ out[i].err = Nil)
                 => out[i].exists
            /\ (out[i].done /\ ~deleted /\ out[i].op = "Reader")
                 => /\ out[i].err # StatusErr
                    /\ out[i].err = Nil => out[i].body = Bytes(0, written)
            /\ (/\ i > 1 /\ out[i - 1].done
                /\ out[i - 1].op = "Delete" /\ out[i - 1].err = Nil
                /\ out[i].op = "Exists" /\ out[i].err = Nil)
                 => ~out[i].exists

\* three bytes written in two parts, Close returned nil; Exists: true,
\* Reader: the three bytes, Delete: nil, Exists: false
C20_Witness ==
    /\ committed /\ written = 3 /\ Len(xml) = 2
    /\ Len(out) = 4
    /\ out[1].op = "Exists" /\ out[1].err = Nil /\ out[1].exists
    /\ out[2].op = "Reader" /\ out[2].err = Nil /\ out[2].body = <<1, 2, 3>>
    /\ out[3].op = "Delete" /\ out[3].err = Nil
    /\ out[4].op = "Exists" /\ out[4].err = Nil /\ ~out[4].exists

\* C21: whatever status the store answers: Reader and Head return an error
\* unless the status is 200, and none when it is; Exists returns true
\* exactly when the status is 200; Delete returns nil exactly when the
\* status is 204; a call whose transport fails returns an error.
C21_StatusDecidesResult ==
    \A i \in 1..Len(out) :
        LET c == out[i]
        IN  /\ c.op \in {"Reader", "Head"} => (c.err = Nil <=> c.status = 200)
            /\ c.op = "Exists" => (c.exists <=> c.status = 200)
            /\ c.op = "Exists" => (c.err = Nil <=> c.status # NoStatus)
            /\ c.op = "Delete" => (c.err = Nil <=> c.status = 204)

\* a Reader answered 404 has returned the status error, and the Delete
\* after it, answered 204, nil
C21_Witness ==
    /\ Len(out) = 2
    /\ out[1].op = "Reader" /\ out[1].status = 404 /\ out[1].err = StatusErr
    /\ out[2].op = "Delete" /\ out[2].status = 204 /\ out[2].err = Nil

\* what signRequest signs of a request: its fields with the Date header as
\* stamped and each provider header as its comma-joined value
SignedFields(s) ==
    [method |-> s.req.method, md5 |-> s.req.md5, type |-> s.req.type,
     date |-> s.date,
     amz |-> [n \in ProviderHeaders |-> Join(s.req.amz[n], <<",">>)],
     path |-> s.req.path, query |-> s.req.query, secret |-> s.req.secret]

C23_AttemptsBoundedAndWhole ==
    /\ [](\A k \in 1..Len(xml) :
            /\ xml[k].tries <= (IF impl = "uploader" THEN nTry ELSE nRetries)
            /\ xml[k].tries >= 1 => xml[k].body = xml[k].data
            /\ xml[k].st = "chan" <=> xml[k].tries = 0)
    /\ [][\A k \in 1..Len(xml) :
             /\ k <= Len(xml') => xml'[k].tries \in {xml[k].tries, xml[k].tries + 1}
             /\ xml[k].st = "ok" =>
                    /\ k <= Len(xml')
                    /\ xml'[k].tries = xml[k].tries
                    /\ xml'[k].st = "ok"]_vars

\* a part of two bytes has been sent twice: the first attempt failed, the
\* second sent the two bytes again and succeeded
C23_Witness ==
    /\ Len(xml) >= 1
    /\ xml[1].tries = 2 /\ xml[1].st = "ok"
    /\ Len(xml[1].data) = 2 /\ xml[1].body = xml[1].data

\* t is s without the quotes and spaces around it: s is t between two runs
\* of quotes and spaces, and t neither starts nor ends with one
IsStripped(t, s) ==
    /\ \E i \in 0..Len(s) :
           /\ i + Len(t) <= Len(s)
           /\ t = SubSeq(s, i + 1, i + Len(t))
           /\ \A j \in (1..i) \cup ((i + Len(t) + 1)..Len(s)) :
                  s[j] \in {Quote, Space}
    /\ t # <<>> => Head(t) \notin {Quote, Space} /\ t[Len(t)] \notin {Quote, Space}

\* C24: the answer 200 to a part PUT never crashes the writer, and the part
\* then holds the ETag header without the quotes and spaces around it,
\* whatever the header is.
C24_ETagStripped ==
    /\ Alive
    /\ xml[1].st = "ok" => IsStripped(xml[1].ETag, resp)

\* a step of the uploader in which the caller starts a Write
UWriteStarts ==
    /\ impl = "uploader" /\ cpc = "idle"
    /\ \/ ret' # ret /\ ret'.op = "Write"
       \/ call' # call /\ call'.op = "Write"
       \/ written' # written

\* what a Write does not touch when it returns at once
UWriteFrame ==
    UNCHANGED <<cpc, written, buf, bufcap, bufsz, part, xml, wg, manifest,
                reqs, err>>

\* C25 as stated: a Write of the uploader that starts when u.err is set
\* returns 0 and u.err, and leaves buffer, part counter and parts as they
\* are.
C25_WriteAfterErrorReturnsIt ==
    [][UWriteStarts /\ err # Nil
        => ret' = [op |-> "Write", n |-> 0, err |-> err] /\ UWriteFrame]_vars

\* C25, amended: a Write of the uploader that starts when u.err is set
\* returns 0 with u.err, or with EINVAL when the uploader is closed, and
\* leaves buffer, part counter and parts as they are.
C25_WriteAfterErrorIsRefused ==
    [][UWriteStarts /\ err # Nil
        => /\ ret' = [op |-> "Write", n |-> 0,
                      err |-> IF closed THEN EINVAL ELSE err]
           /\ UWriteFrame]_vars

\* part 1 has failed for good while the caller is between two calls, and
\* the Write that followed got the part's error and 0
C25_Witness ==
    /\ impl = "uploader" /\ cpc = "idle"
    /\ ~closed
    /\ Len(xml) = 1 /\ xml[1].st = "failed"
    /\ err = PartErr(1)
    /\ ret = [op |-> "Write", n |-> 0, err |-> PartErr(1)]
    /\ buf # <<>>

\* C26: a session sends at most one finalization request, completion or
\* abort, whatever Write, Close and Abort calls and part failures there
\* are, and none is a completion once Abort has been called.
C26_OneFinalization ==
    /\ [](reqs.complete + reqs.abort <= 1)
    /\ [][aborted => reqs'.complete = reqs.complete]_vars

\* the uploader has completed the upload in Close, and the Abort called
\* after it has returned EINVAL without a request
C26_Witness ==
    /\ impl = "uploader" /\ cpc = "idle"
    /\ aborted
    /\ ret = [op |-> "Abort", n |-> 0, err |-> EINVAL]
    /\ reqs.complete = 1 /\ reqs.abort = 0
    /\ committed

\* C27: no part is empty: every part made by Write, Close or Abort of
\* either writer, and so every part of the completion request, has at
\* least one byte, and a Close or Abort with nothing buffered makes no
\* part.
C27_NoEmptyPart ==
    /\ [](\A k \in 1..Len(xml) : Len(xml[k].data) >= 1)
    /\ [][cpc = "idle" /\ buf = <<>> /\ call'.op \in {"Close", "Abort"}
            => Len(xml') = Len(xml)]_vars

\* the uploader's Write filled the buffer of minPartSize bytes, which went
\* out as part 1, and Close found no buffer: the completion request names
\* that part alone
C27_Witness ==
    /\ impl = "uploader"
    /\ written = minPartSize
    /\ Len(xml) = 1 /\ Len(xml[1].data) = minPartSize
    /\ manifest = <<1>>
    /\ ret.op = "Close" /\ ret.err = Nil

\* a step that sends the PUT of a part, a completion or an abort request
SendsUploadRequest ==
    \/ reqs'.complete > reqs.complete
    \/ reqs'.abort > reqs.abort
    \/ \E k \in 1..Len(xml') :
           xml'[k].tries > (IF k <= Len(xml) THEN xml[k].tries ELSE 0)

\* C28: every part PUT, completion and abort request carries the upload
\* id the store gave: none is sent while the upload id is empty, so a
\* Close or Abort of the writer before any successful Write sends nothing.
C28_NoRequestWithoutUploadId ==
    [][SendsUploadRequest => UploadId # ""]_vars

\* C29: writer: with every request answered, every Write, Close and Abort
\* returns and every upload goroutine ends, also when a part has used up
\* its attempts: when no step is left to take, the caller is in no call
\* and no part's goroutine is unfinished.
C29_WriterCallsReturn ==
    (impl = "writer" /\ Alive /\ ~ENABLED Next)
        => /\ cpc = "idle"
           /\ \A k \in 1..Len(xml) : xml[k].st \in {"ok", "failed"}

====
